---- MODULE Spec2Model ----
(***************************************************************************)
(* Model of internal/converter/internal/otelcolconvert/otelcolconvert.go:  *)
(* Convert, AppendConfig, validateNoDuplicateReceivers,                    *)
(* buildConverterTable and filterIDs.                                      *)
(*                                                                         *)
(* A run is one call of Convert (entry = "Convert") or one direct call of  *)
(* AppendConfig by an embedding caller (entry = "AppendConfig").  Every    *)
(* strategy invocation is one step, so that the order of invocations can   *)
(* be observed.                                                            *)
(***************************************************************************)
EXTENDS Integers, Sequences, FiniteSets, TLC

VARIABLES
    entry,            \* "Convert" or "AppendConfig": the function that was called
    extraArgs,        \* Convert's extraArgs
    input,            \* Convert's in: [readable, cfg]; cfg is what reading yields
    extraConverters,  \* AppendConfig's extraConverters (nil from Convert)
    labelPrefix,      \* AppendConfig's labelPrefix ("" from Convert)
    groups,           \* the groups createPipelineGroups returns (nil with an error)
    groupsErr,        \* whether createPipelineGroups returns an error
    pc,               \* position in the code
    file,             \* the builder.File: sequence of appended blocks
    diags,            \* the diagnostics accumulated so far
    calls,            \* the ConvertAndAppend invocations made so far
    converterTable,   \* AppendConfig's converterTable
    connectorIDs,     \* AppendConfig's connectorIDs
    extensionTable,   \* AppendConfig's extensionTable
    ei,               \* index of the next service extension
    pos,              \* index of the next (group, kind, id) of the group loops
    out,              \* the bytes Convert returns (<<>> is nil)
    env,              \* outcomes of the external calls, fixed once observed
    run,              \* 1 for the first conversion, 2 for a repeated one
    prev              \* what the first conversion did, kept for a repeated one

vars == <<entry, extraArgs, input, extraConverters, labelPrefix, groups,
          groupsErr, pc,
          file, diags, calls, converterTable, connectorIDs, extensionTable,
          ei, pos, out, env, run, prev>>

(***************************************************************************)
(* Bounds                                                                  *)
(***************************************************************************)
MaxPipelines == 3
MaxExtra == 2
MaxNested == 2

(***************************************************************************)
(* Component identities: component.ID is (type, name).                     *)
(***************************************************************************)
R1 == <<"otlp", "">>
R2 == <<"otlp", "2">>
P1 == <<"batch", "">>
E1 == <<"otlphttp", "">>
E2 == <<"loadbalancing", "">>
C1 == <<"spanmetrics", "">>
C2 == <<"forward", "">>
X1 == <<"basicauth", "">>
X2 == <<"bearertokenauth", "">>

ReceiverIDs == {R1, R2}
ProcessorIDs == {P1}
ExporterIDs == {E1, E2}
ConnectorIDs == {C1, C2}
ExtensionIDs == {X1, X2}

KindReceiver == "receiver"
KindProcessor == "processor"
KindExporter == "exporter"
KindConnector == "connector"
KindExtension == "extension"

Range(s) == {s[i] : i \in 1..Len(s)}

Min(S) == CHOOSE x \in S : \A y \in S : x <= y

EmptyMap == [x \in {} |-> x]

\* The typed configuration blob of a component.  A blob tells its strategy
\* what to report: nothing, a warning, or an unsupported (critical) feature.
ComponentConfig(id) ==
    IF id = R2 THEN "unsupported"
    ELSE IF id = P1 THEN "deprecated"
    ELSE "plain"

\* The severity level a diagnostic carries.
SeverityLevelCritical == "critical"
SeverityLevelWarn == "warning"

Diag(sev, src, subject) == [sev |-> sev, src |-> src, subject |-> subject]

HasCritical(ds) == \E i \in 1..Len(ds) : ds[i].sev = SeverityLevelCritical

(***************************************************************************)
(* Conversion strategies (ComponentConverter).  A strategy has a name, a   *)
(* factory (its kind and type) and the Alloy component name it emits.      *)
(***************************************************************************)
Converter(name, kind, type, alloy) ==
    [name |-> name, fkind |-> kind, ftype |-> type, alloy |-> alloy]

\* The built-in list filled by addConverter.
converters ==
    << Converter("otlpReceiverConverter", KindReceiver, "otlp",
                 <<"otelcol", "receiver", "otlp">>),
       Converter("batchProcessorConverter", KindProcessor, "batch",
                 <<"otelcol", "processor", "batch">>),
       Converter("otlpHTTPExporterConverter", KindExporter, "otlphttp",
                 <<"otelcol", "exporter", "otlphttp">>),
       Converter("loadbalancingExporterConverter", KindExporter, "loadbalancing",
                 <<"otelcol", "exporter", "loadbalancing">>),
       Converter("spanmetricsConnectorConverter", KindConnector, "spanmetrics",
                 <<"otelcol", "connector", "spanmetrics">>),
       Converter("forwardConnectorConverter", KindConnector, "forward",
                 <<"otelcol", "connector", "forward">>),
       Converter("basicAuthConverter", KindExtension, "basicauth",
                 <<"otelcol", "auth", "basic">>),
       Converter("bearerTokenAuthConverter", KindExtension, "bearertokenauth",
                 <<"otelcol", "auth", "bearer">>) >>

\* Strategies an embedding caller may pass as overrides.
Overrides ==
    { Converter("overrideOtlpA", KindReceiver, "otlp", <<"custom", "otlp", "a">>),
      Converter("overrideOtlpB", KindReceiver, "otlp", <<"custom", "otlp", "b">>),
      Converter("overrideSpanmetrics", KindConnector, "spanmetrics",
                <<"custom", "spanmetrics">>),
      Converter("overrideForwardExporter", KindExporter, "forward",
                <<"custom", "forward">>) }

(***************************************************************************)
(* Source configuration (otelcol.Config) and pipelines.                    *)
(***************************************************************************)
Pipeline(rs, ps, es) == [receivers |-> rs, processors |-> ps, exporters |-> es]

\* The receiver, processor and exporter references a pipeline may hold.
ReceiverRefs == <<R1, R2, C1, C2>>
ProcessorLists == << <<>>, <<P1>> >>
ExporterRefs == <<E1, E2, C1, C2>>

NumShapes == Len(ReceiverRefs) * Len(ProcessorLists) * Len(ExporterRefs)

\* The k-th pipeline of the universe, k in 1..NumShapes.
ShapeOf(k) ==
    LET r == ((k - 1) \div (Len(ProcessorLists) * Len(ExporterRefs))) + 1
        p == (((k - 1) \div Len(ExporterRefs)) % Len(ProcessorLists)) + 1
        e == ((k - 1) % Len(ExporterRefs)) + 1
    IN  Pipeline(<<ReceiverRefs[r]>>, ProcessorLists[p], <<ExporterRefs[e]>>)

\* The pipelines of the universe: no pipeline feeds a connector from itself.
Shapes ==
    {k \in 1..NumShapes : ShapeOf(k).receivers[1] # ShapeOf(k).exporters[1]}

\* The pipelines without processors.
PlainShapes == {k \in Shapes : ShapeOf(k).processors = <<>>}

\* Non-decreasing index sequences of length n over S: the pipelines mapping
\* is keyed by pipeline name, so a configuration is taken once per multiset
\* of pipelines, listed in a canonical order.
RECURSIVE NonDecreasing(_, _)
NonDecreasing(n, S) ==
    IF n = 0 THEN {<<>>}
    ELSE UNION {{<<k>> \o s : s \in NonDecreasing(n - 1, {j \in S : j >= k})} : k \in S}

\* The connectors that the connectors of the set S feed, directly or
\* through other connectors.
RECURSIVE FedBy(_, _)
FedBy(ps, S) ==
    LET T == S \cup {c \in ConnectorIDs :
                        \E i \in 1..Len(ps) :
                            /\ Range(ps[i].receivers) \cap S # {}
                            /\ c \in Range(ps[i].exporters)}
    IN  IF T = S THEN S ELSE FedBy(ps, T)

\* No connector feeds itself through a chain of pipelines.
Acyclic(ps) ==
    \A i \in 1..Len(ps) :
        \A c \in Range(ps[i].receivers) \cap ConnectorIDs :
            c \notin FedBy(ps, Range(ps[i].exporters) \cap ConnectorIDs)

PipelineLists(S, max) ==
    {ps \in {[i \in 1..Len(ks) |-> ShapeOf(ks[i])] :
                ks \in UNION {NonDecreasing(n, S) : n \in 0..max}} : Acyclic(ps)}

\* service.extensions: every duplicate-free list of extension identities.
ExtensionLists ==
    {<<>>} \cup {<<x>> : x \in ExtensionIDs}
           \cup {<<x, y>> : <<x, y>> \in {q \in ExtensionIDs \X ExtensionIDs : q[1] # q[2]}}

PipelineIDs(p) == Range(p.receivers) \cup Range(p.processors) \cup Range(p.exporters)

ReferencedIDs(ps) == UNION {PipelineIDs(ps[i]) : i \in 1..Len(ps)}

ConfigMap(ids) == [id \in ids |-> ComponentConfig(id)]

\* The configuration a document yields: the component sections hold the
\* components the service section references.
MakeConfig(ps, exts) ==
    [ Receivers  |-> ConfigMap(ReferencedIDs(ps) \cap ReceiverIDs),
      Processors |-> ConfigMap(ReferencedIDs(ps) \cap ProcessorIDs),
      Exporters  |-> ConfigMap(ReferencedIDs(ps) \cap ExporterIDs),
      Connectors |-> ConfigMap(ReferencedIDs(ps) \cap ConnectorIDs),
      Extensions |-> ConfigMap(Range(exts)),
      Service    |-> [Extensions |-> exts, Pipelines |-> ps] ]

EmptyConfig == MakeConfig(<<>>, <<>>)

\* cfg.Validate: every reference of a pipeline is configured, and a
\* connector is used both as an exporter and as a receiver (lines 156-157).
Validate(cfg) ==
    LET ps == cfg.Service.Pipelines
        asReceiver == UNION {Range(ps[i].receivers) : i \in 1..Len(ps)}
        asExporter == UNION {Range(ps[i].exporters) : i \in 1..Len(ps)}
    IN  /\ asReceiver \subseteq DOMAIN cfg.Receivers \cup DOMAIN cfg.Connectors
        /\ asExporter \subseteq DOMAIN cfg.Exporters \cup DOMAIN cfg.Connectors
        /\ \A c \in DOMAIN cfg.Connectors : c \in asReceiver /\ c \in asExporter
        /\ Range(cfg.Service.Extensions) \subseteq DOMAIN cfg.Extensions

(***************************************************************************)
(* Pipeline grouping.                                                      *)
(***************************************************************************)
\* Concatenation of id lists, keeping the first occurrence of every id.
RECURSIVE mergeIDs(_, _)
mergeIDs(lists, acc) ==
    IF lists = <<>> THEN acc
    ELSE LET new == SelectSeq(Head(lists), LAMBDA id : id \notin Range(acc))
         IN  mergeIDs(Tail(lists), acc \o new)

Receivers(group) ==
    mergeIDs([i \in 1..Len(group.pipelines) |-> group.pipelines[i].receivers], <<>>)

Processors(group) ==
    mergeIDs([i \in 1..Len(group.pipelines) |-> group.pipelines[i].processors], <<>>)

Exporters(group) ==
    mergeIDs([i \in 1..Len(group.pipelines) |-> group.pipelines[i].exporters], <<>>)

\* The ascending sequence of the members of a set of integers.
RECURSIVE Ascending(_)
Ascending(S) ==
    IF S = {} THEN <<>> ELSE <<Min(S)>> \o Ascending(S \ {Min(S)})

GroupOf(ps, members) ==
    LET order == Ascending(members)
    IN  [pipelines |-> [i \in 1..Len(order) |-> ps[order[i]]]]

\* The pipelines reachable from the set S through shared identities.
RECURSIVE Connected(_, _)
Connected(ps, S) ==
    LET T == S \cup {j \in 1..Len(ps) :
                        \E i \in S : PipelineIDs(ps[i]) \cap PipelineIDs(ps[j]) # {}}
    IN  IF T = S THEN S ELSE Connected(ps, T)

\* One group per maximal cluster, in the order of each cluster's first pipeline.
createPipelineGroups(ps) ==
    LET leaders == {i \in 1..Len(ps) : i = Min(Connected(ps, {i}))}
        order == Ascending(leaders)
    IN  [k \in 1..Len(order) |-> GroupOf(ps, Connected(ps, {order[k]}))]

Max(S) == CHOOSE x \in S : \A y \in S : y <= x

\* The ways of naming n pipelines with at most n names, up to renaming:
\* a[1] = 1 and every a[i] is at most one more than the names used before it.
NameAssignments(n) ==
    {a \in [1..n -> 1..n] :
        \A i \in 1..n : a[i] <= 1 + Max({0} \cup {a[j] : j \in 1..(i - 1)})}

\* Grouping by an assignment of group names: pipelines with equal names
\* form one group.
GroupsByName(ps, a) ==
    LET names == Ascending({a[i] : i \in 1..Len(ps)})
    IN  [k \in 1..Len(names) |-> GroupOf(ps, {i \in 1..Len(ps) : a[i] = names[k]})]

(***************************************************************************)
(* filterIDs, validateNoDuplicateReceivers, buildConverterTable.           *)
(***************************************************************************)
filterIDs(in, rem) == SelectSeq(in, LAMBDA id : id \notin Range(rem))

RECURSIVE Concat(_)
Concat(lists) == IF lists = <<>> THEN <<>> ELSE Head(lists) \o Concat(Tail(lists))

\* The receivers every group hands to the validator, in loop order.
RECURSIVE GroupReceiversPerPipeline(_, _)
GroupReceiversPerPipeline(gs, conns) ==
    IF gs = <<>> THEN <<>>
    ELSE LET ps == Head(gs).pipelines
         IN  filterIDs(Concat([k \in 1..Len(ps) |-> ps[k].receivers]), conns)
             \o GroupReceiversPerPipeline(Tail(gs), conns)

RECURSIVE GroupReceivers(_, _)
GroupReceivers(gs, conns) ==
    IF gs = <<>> THEN <<>>
    ELSE filterIDs(Receivers(Head(gs)), conns) \o GroupReceivers(Tail(gs), conns)

DuplicateDiag(receiver) == Diag(SeverityLevelCritical, "validateNoDuplicateReceivers", receiver)

RECURSIVE DuplicateScanNoRecord(_, _, _)
DuplicateScanNoRecord(rs, usedReceivers, ds) ==
    IF rs = <<>> THEN ds
    ELSE LET receiver == Head(rs)
             found == receiver \in usedReceivers
         IN  DuplicateScanNoRecord(Tail(rs), usedReceivers,
                           IF found THEN Append(ds, DuplicateDiag(receiver)) ELSE ds)

RECURSIVE DuplicateScan(_, _, _)
DuplicateScan(rs, usedReceivers, ds) ==
    IF rs = <<>> THEN ds
    ELSE LET receiver == Head(rs)
             found == receiver \in usedReceivers
         IN  DuplicateScan(Tail(rs), usedReceivers \cup {receiver},
                           IF found THEN Append(ds, DuplicateDiag(receiver)) ELSE ds)

validateNoDuplicateReceivers(gs, conns) ==
    DuplicateScan(GroupReceivers(gs, conns), {}, <<>>)

converterKey(kind, type) == <<kind, type>>

\* The kinds a factory is registered under (the type switch).
FactoryKinds(conv) ==
    IF conv.fkind = KindConnector
    THEN <<KindConnector, KindExporter, KindReceiver>>
    ELSE <<conv.fkind>>

RECURSIVE RegisterKindsLastWins(_, _, _)
RegisterKindsLastWins(table, conv, kinds) ==
    IF kinds = <<>> THEN table
    ELSE LET key == converterKey(Head(kinds), conv.ftype)
         IN  RegisterKindsLastWins((key :> conv) @@ table, conv, Tail(kinds))

RECURSIVE RegisterKinds(_, _, _)
RegisterKinds(table, conv, kinds) ==
    IF kinds = <<>> THEN table
    ELSE LET key == converterKey(Head(kinds), conv.ftype)
         IN  RegisterKinds(IF key \in DOMAIN table THEN table
                           ELSE (key :> conv) @@ table,
                           conv, Tail(kinds))

RECURSIVE RegisterAll(_, _)
RegisterAll(table, allConverters) ==
    IF allConverters = <<>> THEN table
    ELSE RegisterAll(RegisterKinds(table, Head(allConverters),
                                   FactoryKinds(Head(allConverters))),
                     Tail(allConverters))

buildConverterTable(extra) == RegisterAll(EmptyMap, extra \o converters)

(***************************************************************************)
(* Strategy invocation and the external collaborators.                     *)
(***************************************************************************)
\* State.AlloyComponentLabel: the label of the block a strategy emits.
AlloyComponentLabel(prefix, id) == <<prefix, id[1], id[2]>>

\* conv.ConvertAndAppend(state, id, config): one block appended to the file,
\* and the diagnostics the configuration blob calls for.
ConvertAndAppend(conv, prefix, kind, id, config) ==
    [ blocks |-> << [name |-> conv.alloy, label |-> AlloyComponentLabel(prefix, id)] >>,
      diags  |-> IF config = "unsupported"
                 THEN << Diag(SeverityLevelCritical, conv.name, id) >>
                 ELSE IF config = "deprecated"
                 THEN << Diag(SeverityLevelWarn, conv.name, id) >>
                 ELSE <<>> ]

\* common.ValidateNodes: nothing to report on an empty file; otherwise what
\* the validation of the emitted blocks finds.
ValidateNodes(f, verdict) ==
    IF f = <<>> \/ verdict = "ok" THEN <<>>
    ELSE << Diag(SeverityLevelCritical, "ValidateNodes", f[1].label) >>

\* file.WriteTo: the text of every block, in order.
WriteTo(f) == [i \in 1..Len(f) |-> <<f[i].name, f[i].label, "{}">>]

\* common.PrettyPrint: the formatted bytes and the formatter's diagnostics.
PrettyPrint(buf) ==
    [ bytes |-> [i \in 1..Len(buf) |-> <<buf[i][1], buf[i][2], "{", "}">>],
      diags |-> <<>> ]

\* maps.Keys: the keys of a map in the order the runtime iterates them,
\* which is unspecified.
Keys(m) ==
    {s \in [1..Cardinality(DOMAIN m) -> DOMAIN m] :
        \A i, j \in 1..Cardinality(DOMAIN m) : i # j => s[i] # s[j]}

(***************************************************************************)
(* The loops of AppendConfig.                                              *)
(***************************************************************************)
\* componentSets of one group: kind and ids, in the order of the literal.
componentSetsUnfiltered(group, conns) ==
    << [kind |-> KindReceiver,  ids |-> Receivers(group)],
       [kind |-> KindProcessor, ids |-> Processors(group)],
       [kind |-> KindExporter,  ids |-> Exporters(group)],
       [kind |-> KindConnector, ids |-> conns] >>

componentSets(group, conns) ==
    << [kind |-> KindReceiver,  ids |-> filterIDs(Receivers(group), conns)],
       [kind |-> KindProcessor, ids |-> Processors(group)],
       [kind |-> KindExporter,  ids |-> filterIDs(Exporters(group), conns)],
       [kind |-> KindConnector, ids |-> conns] >>

configLookup(cfg, kind) ==
    IF kind = KindReceiver THEN cfg.Receivers
    ELSE IF kind = KindProcessor THEN cfg.Processors
    ELSE IF kind = KindExporter THEN cfg.Exporters
    ELSE IF kind = KindConnector THEN cfg.Connectors
    ELSE cfg.Extensions

\* A map lookup: the zero value (nil) for a missing key.
MapGet(m, id) == IF id \in DOMAIN m THEN m[id] ELSE "nil"

RECURSIVE SetItems(_, _, _)
SetItems(g, sets, k) ==
    IF k > Len(sets) THEN <<>>
    ELSE [i \in 1..Len(sets[k].ids) |->
             [group |-> g, kind |-> sets[k].kind, id |-> sets[k].ids[i]]]
         \o SetItems(g, sets, k + 1)

\* The iterations of the three nested loops (groups, componentSets, ids),
\* in the order the loops run them.
RECURSIVE GroupItems(_, _, _)
GroupItems(gs, conns, g) ==
    IF g > Len(gs) THEN <<>>
    ELSE SetItems(g, componentSets(gs[g], conns), 1) \o GroupItems(gs, conns, g + 1)

Call(g, kind, id, conv) == [group |-> g, kind |-> kind, id |-> id, conv |-> conv.name]

\* extensionTable[ext] = componentID{Name, Label} (lines 210-213).  The name
\* is the strategy's dotted component name, kept here as its segments.
RecordExtensionDropped(table, ext, conv, prefix) == table

RecordExtension(table, ext, conv, prefix) ==
    [x \in DOMAIN table \cup {ext} |->
        IF x = ext
        THEN [Name |-> conv.alloy, Label |-> AlloyComponentLabel(prefix, ext)]
        ELSE table[x]]

\* len(extraArgs) > 0 (line 51).
ExtraArgsRejectedAlways(args) == Len(args) >= 0

ExtraArgsRejected(args) == Len(args) > 0

\* Where AppendConfig returns to.
Returned == IF entry = "Convert" THEN "ValidateNodes" ELSE "returned"

AfterExtensions(items) == IF Len(items) > 0 THEN "groups" ELSE Returned

(***************************************************************************)
(* Initial states.                                                         *)
(***************************************************************************)
InitRun ==
    /\ file = <<>>
    /\ diags = <<>>
    /\ calls = <<>>
    /\ converterTable = EmptyMap
    /\ connectorIDs = <<>>
    /\ extensionTable = EmptyMap
    /\ ei = 1
    /\ pos = 1
    /\ out = <<>>
    /\ env = [nodes |-> "unset", write |-> "unset"]
    /\ run = 1
    /\ prev = [calls |-> <<>>, diags |-> <<>>, out |-> <<>>]

\* The documents given to a conversion: every list of pipelines that
\* validation accepts, and the one-pipeline lists that it rejects.
Documents(S, max, extLists) ==
    {MakeConfig(ps, exts) :
        ps \in {q \in PipelineLists(S, max) :
                   Len(q) <= 1 \/ Validate(MakeConfig(q, <<>>))},
        exts \in extLists}

\* The inputs of Convert: any extra arguments, and a document that cannot be
\* read or that yields a configuration.  Convert passes no overrides and an
\* empty label prefix to AppendConfig (line 68).
ConvertInputs(docs) ==
    /\ entry = "Convert"
    /\ pc = "Convert"
    /\ extraConverters = <<>>
    /\ labelPrefix = ""
    /\ \/ /\ extraArgs \in {<<>>, <<"--flag">>}
          /\ input = [readable |-> FALSE, cfg |-> EmptyConfig]
       \/ /\ extraArgs = <<>>
          /\ \E cfg \in docs : input = [readable |-> TRUE, cfg |-> cfg]

\* The two results of createPipelineGroups(cfg.Service.Pipelines) that line
\* 144 receives: the groups gs and no error, or nil and an error.  The
\* failure is one of interpreting a pipeline, so a mapping without pipelines
\* has only the first result.  The result is a function of the input: it is
\* chosen with the input and a second run of the same input meets it again.
GroupingResult(ps, gs) ==
    \/ groups = gs /\ groupsErr = FALSE
    \/ Len(ps) > 0 /\ groups = <<>> /\ groupsErr = TRUE

\* Convert, with grouping by connected clusters.
Init ==
    /\ ConvertInputs(Documents(Shapes, MaxPipelines, ExtensionLists))
    /\ GroupingResult(input.cfg.Service.Pipelines,
                      createPipelineGroups(input.cfg.Service.Pipelines))
    /\ InitRun

\* Convert, with the pipelines grouped by any assignment of group names.
InitGroups ==
    /\ ConvertInputs(Documents(PlainShapes, MaxPipelines, {<<>>, <<X1>>}))
    /\ \E a \in NameAssignments(Len(input.cfg.Service.Pipelines)) :
          GroupingResult(input.cfg.Service.Pipelines,
                         GroupsByName(input.cfg.Service.Pipelines, a))
    /\ InitRun

\* The lists of at most n overrides.
OverrideLists(n) == UNION {[1..k -> Overrides] : k \in 0..n}

\* AppendConfig called by an embedding caller, with overrides, a label
\* prefix and a validated configuration.
InitAppend ==
    /\ entry = "AppendConfig"
    /\ pc = "AppendConfig"
    /\ extraArgs = <<>>
    /\ labelPrefix = "nested"
    /\ extraConverters \in OverrideLists(MaxExtra)
    /\ \E cfg \in Documents(PlainShapes, MaxNested, {<<>>, <<X1>>}) :
          /\ Validate(cfg)
          /\ input = [readable |-> TRUE, cfg |-> cfg]
    /\ GroupingResult(input.cfg.Service.Pipelines,
                      createPipelineGroups(input.cfg.Service.Pipelines))
    /\ InitRun

(***************************************************************************)
(* Actions.                                                                *)
(***************************************************************************)
\* Convert, lines 48-68: up to the call of AppendConfig.
ConvertBegin ==
    /\ pc = "Convert"
    /\ IF ExtraArgsRejected(extraArgs)
       THEN /\ diags' = Append(diags, Diag(SeverityLevelCritical, "extraArgs", extraArgs))
            /\ pc' = "done"
       ELSE IF ~input.readable
       THEN /\ diags' = Append(diags, Diag(SeverityLevelCritical, "readOpentelemetryConfig", <<>>))
            /\ pc' = "done"
       ELSE IF ~Validate(input.cfg)
       THEN /\ diags' = Append(diags, Diag(SeverityLevelCritical, "Validate", <<>>))
            /\ pc' = "done"
       ELSE /\ diags' = diags
            /\ pc' = "AppendConfig"
    /\ file' = <<>>
    /\ out' = <<>>
    /\ UNCHANGED <<entry, extraArgs, input, extraConverters, labelPrefix, groups,
                   groupsErr, calls, converterTable, connectorIDs, extensionTable, ei, pos,
                   env, run, prev>>

\* AppendConfig, lines 141-181: grouping and its error return, the converter
\* table, the connector ids and the duplicate-receiver gate.
AppendConfigBegin ==
    /\ pc = "AppendConfig"
    /\ IF groupsErr
       THEN /\ diags' = Append(diags, Diag(SeverityLevelCritical,
                                           "createPipelineGroups", <<>>))
            /\ pc' = Returned
            /\ UNCHANGED <<converterTable, connectorIDs>>
       ELSE \E ids \in Keys(input.cfg.Connectors) :
               LET duplicateDiags == validateNoDuplicateReceivers(groups, ids)
               IN  /\ connectorIDs' = ids
                   /\ converterTable' = buildConverterTable(extraConverters)
                   /\ IF Len(duplicateDiags) > 0
                      THEN /\ diags' = diags \o duplicateDiags
                           /\ pc' = Returned
                      ELSE /\ diags' = diags
                           /\ pc' = IF Len(input.cfg.Service.Extensions) > 0
                                    THEN "extensions"
                                    ELSE AfterExtensions(GroupItems(groups, ids, 1))
    /\ extensionTable' = EmptyMap
    /\ ei' = 1
    /\ pos' = 1
    /\ UNCHANGED <<entry, extraArgs, input, extraConverters, labelPrefix, groups,
                   groupsErr, file, calls, out, env, run, prev>>

\* AppendConfig, lines 183-214: one iteration of the extension loop.
ConvertExtension ==
    /\ pc = "extensions"
    /\ LET ext == input.cfg.Service.Extensions[ei]
           key == converterKey(KindExtension, ext[1])
       IN  IF key \notin DOMAIN converterTable
           THEN /\ pc' = "panic"
                /\ UNCHANGED <<file, diags, calls, extensionTable, ei>>
           ELSE LET conv == converterTable[key]
                    res == ConvertAndAppend(conv, labelPrefix, KindExtension, ext,
                                            MapGet(input.cfg.Extensions, ext))
                IN  /\ file' = file \o res.blocks
                    /\ diags' = diags \o res.diags
                    /\ calls' = Append(calls, Call(0, KindExtension, ext, conv))
                    /\ extensionTable' = RecordExtension(extensionTable, ext, conv, labelPrefix)
                    /\ ei' = ei + 1
                    /\ pc' = IF ei < Len(input.cfg.Service.Extensions)
                             THEN "extensions"
                             ELSE AfterExtensions(GroupItems(groups, connectorIDs, 1))
    /\ UNCHANGED <<entry, extraArgs, input, extraConverters, labelPrefix, groups,
                   groupsErr, converterTable, connectorIDs, pos, out, env, run, prev>>

\* AppendConfig, lines 216-261: one iteration of the innermost group loop.
ConvertComponent ==
    /\ pc = "groups"
    /\ LET items == GroupItems(groups, connectorIDs, 1)
           item == items[pos]
           key == converterKey(item.kind, item.id[1])
       IN  IF key \notin DOMAIN converterTable
           THEN /\ pc' = "panic"
                /\ UNCHANGED <<file, diags, calls, pos>>
           ELSE LET conv == converterTable[key]
                    res == ConvertAndAppend(conv, labelPrefix, item.kind, item.id,
                                            MapGet(configLookup(input.cfg, item.kind), item.id))
                IN  /\ file' = file \o res.blocks
                    /\ diags' = diags \o res.diags
                    /\ calls' = Append(calls, Call(item.group, item.kind, item.id, conv))
                    /\ pos' = pos + 1
                    /\ pc' = IF pos < Len(items) THEN "groups" ELSE Returned
    /\ UNCHANGED <<entry, extraArgs, input, extraConverters, labelPrefix, groups,
                   groupsErr, converterTable, connectorIDs, extensionTable, ei, out, env,
                   run, prev>>

\* Convert, lines 69-83: validation of the file, rendering and formatting.
ConvertEnd ==
    /\ pc = "ValidateNodes"
    /\ \E nodes \in {"ok", "bad"}, write \in {"ok", "err"} :
          /\ env.nodes \in {"unset", nodes}
          /\ env.write \in {"unset", write}
          /\ file = <<>> => nodes = "ok" /\ write = "ok"
          /\ env' = [nodes |-> nodes, write |-> write]
          /\ LET validated == diags \o ValidateNodes(file, nodes)
                 buf == WriteTo(file)
                 pretty == PrettyPrint(buf)
             IN  IF write = "err"
                 THEN /\ diags' = Append(validated, Diag(SeverityLevelCritical, "WriteTo", <<>>))
                      /\ out' = <<>>
                 ELSE IF Len(buf) = 0
                 THEN /\ diags' = validated
                      /\ out' = <<>>
                 ELSE /\ diags' = validated \o pretty.diags
                      /\ out' = pretty.bytes
    /\ pc' = "done"
    /\ UNCHANGED <<entry, extraArgs, input, extraConverters, labelPrefix, groups,
                   groupsErr, file, calls, converterTable, connectorIDs, extensionTable, ei,
                   pos, run, prev>>

\* A second conversion of the same input, after the first one is done.
Rerun ==
    /\ pc = "done"
    /\ run = 1
    /\ prev' = [calls |-> calls, diags |-> diags, out |-> out]
    /\ run' = 2
    /\ pc' = "Convert"
    /\ file' = <<>>
    /\ diags' = <<>>
    /\ calls' = <<>>
    /\ converterTable' = EmptyMap
    /\ connectorIDs' = <<>>
    /\ extensionTable' = EmptyMap
    /\ ei' = 1
    /\ pos' = 1
    /\ out' = <<>>
    /\ UNCHANGED <<entry, extraArgs, input, extraConverters, labelPrefix, groups,
                   groupsErr, env>>

Next ==
    \/ ConvertBegin
    \/ AppendConfigBegin
    \/ ConvertExtension
    \/ ConvertComponent
    \/ ConvertEnd

NextAppend ==
    \/ AppendConfigBegin
    \/ ConvertExtension
    \/ ConvertComponent

NextTwice ==
    \/ Next
    \/ Rerun

\* One call of Convert.
Spec == Init /\ [][Next]_vars

\* One call of Convert, whatever groups the grouping returns.
SpecGroups == InitGroups /\ [][Next]_vars

\* One call of AppendConfig by an embedding caller.
SpecAppend == InitAppend /\ [][NextAppend]_vars

\* Two calls of Convert on the same input.
SpecTwice == Init /\ [][NextTwice]_vars

(***************************************************************************)
(* Vocabulary of the properties.                                           *)
(***************************************************************************)
Pipelines == input.cfg.Service.Pipelines

\* AppendConfig has passed line 151: the converter table is built.
Appended == converterTable # EmptyMap

\* AppendConfig has returned.
AppendReturned == Appended /\ pc \in {"ValidateNodes", "returned", "done"}

Indexes(seq, P(_)) == {i \in 1..Len(seq) : P(seq[i])}

\* The diagnostics of the duplicate-receiver validator among ds.
DuplicateDiags(ds) ==
    SelectSeq(ds, LAMBDA d : d.src = "validateNoDuplicateReceivers")

\* The non-connector receivers found in the receiver sets of two groups.
DuplicatedReceivers ==
    {r \in ReceiverIDs :
        \E g, h \in 1..Len(groups) :
            /\ g # h
            /\ r \in Range(Receivers(groups[g]))
            /\ r \in Range(Receivers(groups[h]))}

\* The non-connector receivers that two pipelines reference.
SharedReceivers(ps) ==
    {r \in ReceiverIDs :
        \E i, j \in 1..Len(ps) :
            i # j /\ r \in Range(ps[i].receivers) /\ r \in Range(ps[j].receivers)}

GroupsHolding(gs, r) == {g \in 1..Len(gs) : r \in Range(Receivers(gs[g]))}

Occurrences(seq, x) == Cardinality({i \in 1..Len(seq) : seq[i] = x})

\* C1: when a non-connector receiver is in the receiver sets of two
\* different groups, AppendConfig reports a critical diagnostic naming it
\* and returns before any strategy is invoked: no call, an unchanged file,
\* no extension or group phase, and Convert returns empty output.
Theorem_C1 ==
    (Appended /\ DuplicatedReceivers # {}) =>
        /\ \A r \in DuplicatedReceivers :
              \E i \in 1..Len(diags) :
                  /\ diags[i].sev = SeverityLevelCritical
                  /\ diags[i].src = "validateNoDuplicateReceivers"
                  /\ diags[i].subject = r
        /\ calls = <<>>
        /\ file = <<>>
        /\ extensionTable = EmptyMap
        /\ pc \in {"ValidateNodes", "done"}
        /\ pc = "done" => out = <<>>

Witness_C1 ==
    /\ pc = "done"
    /\ Appended
    /\ DuplicatedReceivers # {}
    /\ Len(input.cfg.Service.Extensions) > 0
    /\ DOMAIN input.cfg.Connectors # {}

\* C2: within one AppendConfig call no component identity (role, type,
\* name) is handed to a strategy twice.
Claim_C2 ==
    \A i, j \in 1..Len(calls) :
        (calls[i].kind = calls[j].kind /\ calls[i].id = calls[j].id) => i = j

\* A strategy has returned a critical diagnostic.
StrategyCritical ==
    \E i \in 1..Len(diags), j \in 1..Len(calls) :
        /\ diags[i].sev = SeverityLevelCritical
        /\ diags[i].src = calls[j].conv
        /\ diags[i].subject = calls[j].id

\* C3: when the diagnostics Convert returns hold a critical entry, the
\* bytes it returns are empty; and once a strategy has returned a critical
\* diagnostic the operation is aborted: no further node is left to convert.
Claim_C3 ==
    /\ (entry = "Convert" /\ pc = "done" /\ HasCritical(diags)) => out = <<>>
    /\ StrategyCritical => pc \notin {"extensions", "groups"}

\* C4: a second conversion of the same input invokes the strategies in the
\* same sequence and returns the same diagnostics and the same output.
Claim_C4 ==
    (pc = "done" /\ run = 2) =>
        /\ calls = prev.calls
        /\ diags = prev.diags
        /\ out = prev.out

\* The first strategy of overrides-then-built-ins whose factory applies to
\* the role and has the type; 0 when there is none.
FirstApplicable(extra, kind, type) ==
    LET all == extra \o converters
        hits == {i \in 1..Len(all) :
                    /\ all[i].ftype = type
                    /\ \/ all[i].fkind = kind
                       \/ /\ all[i].fkind = KindConnector
                          /\ kind \in {KindExporter, KindReceiver}}
    IN  IF hits = {} THEN 0 ELSE Min(hits)

AllKinds == {KindReceiver, KindProcessor, KindExporter, KindConnector, KindExtension}

AllTypes == {c.ftype : c \in Range(converters) \cup Overrides}

\* C5: the converter table maps every key (role, type) to the first
\* strategy, overrides before built-ins, that applies to it, and holds no
\* other key; every strategy invocation uses that first strategy.
Theorem_C5 ==
    Appended =>
        /\ \A kind \in AllKinds, type \in AllTypes :
              LET first == FirstApplicable(extraConverters, kind, type)
                  key == converterKey(kind, type)
              IN  IF first = 0 THEN key \notin DOMAIN converterTable
                  ELSE /\ key \in DOMAIN converterTable
                       /\ converterTable[key] = (extraConverters \o converters)[first]
        /\ \A i \in 1..Len(calls) :
              LET first == FirstApplicable(extraConverters, calls[i].kind, calls[i].id[1])
              IN  /\ first # 0
                  /\ calls[i].conv = (extraConverters \o converters)[first].name

Witness_C5 ==
    /\ pc = "returned"
    /\ Len(extraConverters) = 2
    /\ extraConverters[1].name = "overrideOtlpB"
    /\ extraConverters[2].name = "overrideOtlpA"
    /\ \E i \in 1..Len(calls) :
          calls[i].kind = KindReceiver /\ calls[i].conv = "overrideOtlpB"

\* The extension table once every service extension is converted.
FullExtensionTable ==
    [x \in Range(input.cfg.Service.Extensions) |->
        [Name |-> converterTable[converterKey(KindExtension, x[1])].alloy,
         Label |-> AlloyComponentLabel(labelPrefix, x)]]

GroupPhaseStarted == \E i \in 1..Len(calls) : calls[i].kind # KindExtension

\* C6: whenever the group phase is reached or a group-phase conversion has
\* happened, every service extension has been converted and recorded in the
\* extension table, which stays as it was when the group phase began; the
\* extension conversions all precede the group-phase conversions.
Theorem_C6 ==
    /\ (pc = "groups" \/ GroupPhaseStarted) =>
          /\ extensionTable = FullExtensionTable
          /\ \A x \in Range(input.cfg.Service.Extensions) :
                \E i \in 1..Len(calls) :
                    calls[i].kind = KindExtension /\ calls[i].id = x
    /\ \A i, j \in 1..Len(calls) :
          (i < j /\ calls[j].kind = KindExtension) => calls[i].kind = KindExtension

Witness_C6 ==
    /\ pc = "groups"
    /\ Len(input.cfg.Service.Extensions) = 2
    /\ GroupPhaseStarted

\* The input declares no receivers, processors, exporters or pipelines.
DeclaresNoPipelineComponents ==
    /\ input.readable
    /\ extraArgs = <<>>
    /\ DOMAIN input.cfg.Receivers = {}
    /\ DOMAIN input.cfg.Processors = {}
    /\ DOMAIN input.cfg.Exporters = {}
    /\ Pipelines = <<>>

\* C7 as stated: an input without receivers, processors, exporters and
\* pipelines, whatever extensions it activates, has no strategy invoked,
\* empty output and no diagnostics.
Claim_C7 ==
    (pc = "done" /\ DeclaresNoPipelineComponents) =>
        /\ calls = <<>>
        /\ out = <<>>
        /\ diags = <<>>

\* C7, amended: an input without receivers, processors, exporters and
\* pipelines that also activates no extension has no strategy invoked, an
\* empty file, empty output and no diagnostics.
Theorem_C7 ==
    (pc = "done" /\ DeclaresNoPipelineComponents
        /\ input.cfg.Service.Extensions = <<>>) =>
        /\ calls = <<>>
        /\ file = <<>>
        /\ out = <<>>
        /\ diags = <<>>

Witness_C7 ==
    /\ pc = "done"
    /\ Appended
    /\ DeclaresNoPipelineComponents
    /\ input.cfg.Service.Extensions = <<>>

\* C8: grouping puts pipelines that share a non-connector receiver into one
\* group that lists it once, and the validator then reports nothing; the
\* validator names a receiver only when two distinct groups hold it, never
\* for two pipelines of one group; and a shared receiver held by one group
\* is converted exactly once when the gate lets the conversion run.
Theorem_C8 ==
    /\ LET gs == createPipelineGroups(Pipelines)
       IN  /\ \A r \in SharedReceivers(Pipelines) :
                 /\ Cardinality(GroupsHolding(gs, r)) = 1
                 /\ \A g \in GroupsHolding(gs, r) : Occurrences(Receivers(gs[g]), r) = 1
           /\ \A ids \in Keys(input.cfg.Connectors) :
                 validateNoDuplicateReceivers(gs, ids) = <<>>
    /\ Appended =>
          /\ \A i \in 1..Len(diags) :
                diags[i].src = "validateNoDuplicateReceivers" =>
                    diags[i].subject \in DuplicatedReceivers
          /\ \A r \in SharedReceivers(Pipelines) :
                Cardinality(GroupsHolding(groups, r)) = 1 =>
                    /\ \A i \in 1..Len(DuplicateDiags(diags)) :
                          DuplicateDiags(diags)[i].subject # r
                    /\ (AppendReturned /\ DuplicateDiags(diags) = <<>>) =>
                          Cardinality(Indexes(calls,
                              LAMBDA c : c.kind = KindReceiver /\ c.id = r)) = 1

Witness_C8 ==
    /\ pc = "done"
    /\ Len(groups) = 2
    /\ groups = createPipelineGroups(Pipelines)
    /\ R1 \in SharedReceivers(Pipelines)
    /\ DOMAIN input.cfg.Connectors = {}
    /\ \E i \in 1..Len(calls) : calls[i].kind = KindReceiver /\ calls[i].id = R1

KindRank(kind) ==
    IF kind = KindReceiver THEN 1
    ELSE IF kind = KindProcessor THEN 2
    ELSE IF kind = KindExporter THEN 3
    ELSE 4

GroupCalls(g, kind) ==
    {calls[i].id : i \in Indexes(calls, LAMBDA c : c.group = g /\ c.kind = kind)}

\* C9: the group-phase conversions run group by group and, within a group,
\* receivers, then processors, then exporters, then connectors; a key of
\* the connectors mapping is converted only under the connector role; and
\* when AppendConfig returns past the gate every member of every role of
\* every group has been converted.
Theorem_C9 ==
    /\ \A i, j \in 1..Len(calls) :
          (i < j /\ calls[i].kind # KindExtension /\ calls[j].kind # KindExtension) =>
              /\ calls[i].group <= calls[j].group
              /\ calls[i].group = calls[j].group =>
                    KindRank(calls[i].kind) <= KindRank(calls[j].kind)
    /\ \A i \in 1..Len(calls) :
          calls[i].id \in DOMAIN input.cfg.Connectors => calls[i].kind = KindConnector
    /\ (AppendReturned /\ DuplicateDiags(diags) = <<>>) =>
          \A g \in 1..Len(groups) :
              /\ GroupCalls(g, KindReceiver) =
                    Range(Receivers(groups[g])) \ DOMAIN input.cfg.Connectors
              /\ GroupCalls(g, KindProcessor) = Range(Processors(groups[g]))
              /\ GroupCalls(g, KindExporter) =
                    Range(Exporters(groups[g])) \ DOMAIN input.cfg.Connectors
              /\ GroupCalls(g, KindConnector) = DOMAIN input.cfg.Connectors

Witness_C9 ==
    /\ pc = "done"
    /\ Cardinality(GroupCalls(1, KindReceiver)) = 2
    /\ GroupCalls(1, KindProcessor) # {}
    /\ GroupCalls(1, KindExporter) # {}
    /\ GroupCalls(1, KindConnector) # {}
    /\ \E g \in 1..Len(groups) :
          Range(Receivers(groups[g])) \cap DOMAIN input.cfg.Connectors # {}

\* C10: the duplicate-receiver validator returns at most one diagnostic.
Claim_C10 ==
    Appended => Len(DuplicateDiags(diags)) <= 1

====
